---- MODULE Spec2Model ----
(***************************************************************************)
(* Model of opencv_dumper.py: the debugger pretty printers for cv::Mat,    *)
(* cv::RotatedRect, cv::Point_, cv::Rect_ and cv::Size_.                   *)
(*                                                                         *)
(* One printer call is one behaviour: it starts in pc = "idle", reads the  *)
(* inspected value through the debugger (the reads are the \E of the       *)
(* actions), and writes to the sink (summary, kids, the element grid).     *)
(* The sink's answers to isExpanded() are inputs too, kept in exp.         *)
(*                                                                         *)
(* Numbers.  Python ints are TLA+ integers.  Python floats are modelled    *)
(* as integers counting hundredths (1.50 is 150); the inputs are multiples *)
(* of 0.5, for which every product and every '%.2f' of the code is exact.  *)
(* Python 3 arithmetic: / is true division, and '%d' and int() truncate    *)
(* toward zero.                                                            *)
(***************************************************************************)
EXTENDS Integers, Sequences, FiniteSets, TLC

VARIABLES pc, fn, hdr, geo, exp, summary, nSummary, kids, loop, cells, err

vars == <<pc, fn, hdr, geo, exp, summary, nSummary, kids, loop, cells, err>>

(***************************************************************************)
(* Bounds of the model (not program constants).                            *)
(***************************************************************************)
MaxRows == 25
MaxCols == 41
MaxCoord == 1
MaxSide == 4
MaxPoint == 4

(***************************************************************************)
(* Program constants.                                                      *)
(***************************************************************************)
DepthMask == 7
ChannelShift == 3
ChannelMask == 63
MaxDepth == 7
ElementCap == 1000

DEPTH_NAMES == <<"CV_8U", "CV_8S", "CV_16U", "CV_16S", "CV_32S", "CV_32F", "CV_64F", "undefined">>
DEPTH_BYTE_SIZE == <<1, 1, 2, 2, 4, 4, 8, 1>>

(***************************************************************************)
(* Python operators on integers.                                           *)
(***************************************************************************)
Abs(n) == IF n < 0 THEN -n ELSE n

Min2(a, b) == IF a <= b THEN a ELSE b

Max2(a, b) == IF a >= b THEN a ELSE b

\* n & mask, for a mask of the form 2^k - 1 and n >= 0
BitAndLow(n, mask) == n % (mask + 1)

\* n >> k, for n >= 0
ShiftRight(n, k) == n \div (2 ^ k)

\* a % b of Python (the result has the sign of b), b # 0
PyMod(a, b) == IF b > 0 THEN a % b ELSE -((-a) % (-b))

\* int(a / b) and '%d' % (a / b) of Python 3: true division, then truncation
\* toward zero, b # 0
TruncDiv(a, b) ==
    IF (a >= 0) = (b > 0) THEN Abs(a) \div Abs(b) ELSE -(Abs(a) \div Abs(b))

(***************************************************************************)
(* Python string formatting.                                               *)
(***************************************************************************)
\* '%d' % n
Dec(n) == ToString(n)

\* '%3d' % n: right-aligned in a field of width 3
Dec3(n) ==
    LET t == ToString(n)
    IN  IF Len(t) >= 3 THEN t ELSE IF Len(t) = 2 THEN " " \o t ELSE "  " \o t

HexDigits == <<"0", "1", "2", "3", "4", "5", "6", "7", "8", "9", "A", "B", "C", "D", "E", "F">>

RECURSIVE Hex(_)
\* '%X' % n, n >= 0
Hex(n) == IF n < 16 THEN HexDigits[n + 1] ELSE Hex(n \div 16) \o HexDigits[(n % 16) + 1]

\* '%.2f' % v for the float v that h counts in hundredths
Fmt2(h) ==
    LET a == Abs(h)
        frac == a % 100
    IN  (IF h < 0 THEN "-" ELSE "") \o ToString(a \div 100) \o "."
            \o (IF frac < 10 THEN "0" ELSE "") \o ToString(frac)

\* the float product u * v, all three in hundredths (exact on multiples of 0.5)
FMul(u, v) == (u * v) \div 100

\* the float of the int n, in hundredths
ToFloat(n) == n * 100

\* round(sqrt(n)) for n >= 0: the hundredths of math.sqrt of a float whose
\* hundredths squared sum to n
RoundSqrt(n) ==
    LET r == CHOOSE k \in 0..n : k * k <= n /\ n < (k + 1) * (k + 1)
    IN  IF n - r * r > r THEN r + 1 ELSE r

\* value of a child the sink renders itself (putSubItem -> putItem)
SinkRendered == "<putItem>"

Kid(node, name, value) == [node |-> node, name |-> name, value |-> value]

(***************************************************************************)
(* cv::Mat: flag decoding (lines 36-45).                                   *)
(***************************************************************************)
DecodeDepth(flags) == Min2(BitAndLow(flags, DepthMask), MaxDepth)

\* 1 + (flags >> 3) & 63: in Python + binds tighter than &
DecodeChannels(flags) == BitAndLow(1 + ShiftRight(flags, ChannelShift), ChannelMask)

TypeName(flags) == DEPTH_NAMES[DecodeDepth(flags) + 1] \o "C" \o Dec(DecodeChannels(flags))

ByteSize(flags) == DEPTH_BYTE_SIZE[DecodeDepth(flags) + 1]

\* value_str of lines 50-57, for a reference count that could be read
ValueStr(cols, rows, flags, refcount) ==
    LET base == Dec(cols) \o "x" \o Dec(rows) \o " " \o TypeName(flags)
    IN  IF refcount <= 0 THEN "unistantiated"
        ELSE IF refcount = 1 THEN base \o " unique"
        ELSE base \o " shared"

(***************************************************************************)
(* Inputs.                                                                 *)
(***************************************************************************)
\* the flags of a matrix of the given depth code and channel count
Encode(depth, channels) == depth + (channels - 1) * (2 ^ ChannelShift)

\* 0x42FF0000, the signature OpenCV keeps in the upper bits of Mat::flags
MagicBits == 66 * (2 ^ 24) + 255 * (2 ^ 16)

FlagsSet == {Encode(0, 1), Encode(5, 2), Encode(7, 1), Encode(0, 64), MagicBits + Encode(0, 3)}

RowsSet == {-1, 0, 2, MaxRows}

ColsSet == {-1, 0, 3, MaxCols}

\* value['refcount']: a pointer that is null (a header over user data has no
\* reference count) or points to the count
RefPtr(null, count) == [null |-> null, count |-> count]

RefcountSet == {RefPtr(TRUE, 0)} \cup {RefPtr(FALSE, c) : c \in {-1, 0, 1, 2}}

StepSet == {-64, 0, 64}

DataSet == {4096}

\* data - datastart is -4, 0, 130 or 150
DataStartSet == {4100, 4096, 3966, 3946}

DataEndSet == {8192}

DataLimitSet == {8192}

NoLoop == [i |-> 0, j |-> 0, s |-> 0]

NoCells == [n |-> 0, reads |-> 0, declared |-> -1,
            last |-> [s |-> -1, name |-> "", i |-> -1, j |-> -1, off |-> -1, len |-> -1]]

NoHdr == [flags |-> 0, depth |-> 0, channels |-> 0, cv_type_name |-> "", data_byte_size |-> 0,
          rows |-> 0, cols |-> 0, refnull |-> FALSE, refcount |-> 0, line_step |-> 0, image_data_start |-> 0,
          size |-> 0, datastart |-> 0, first_row |-> 0, first_col |-> 0]

NoGeo == [x |-> 0, y |-> 0, width |-> 0, height |-> 0, angle |-> 0, float |-> TRUE]

NoExp == [top |-> "unasked", data |-> "unasked", roi |-> "unasked",
          points |-> "unasked", boundingrect |-> "unasked"]

Asked(b) == IF b THEN "yes" ELSE "no"

Init ==
    /\ pc = "idle"
    /\ fn = "none"
    /\ hdr = NoHdr
    /\ geo = NoGeo
    /\ exp = NoExp
    /\ summary = ""
    /\ nSummary = 0
    /\ kids = <<>>
    /\ loop = NoLoop
    /\ cells = NoCells
    /\ err = "none"

(***************************************************************************)
(* qdump__cv__Mat, lines 34-60: decode the header and put the summary.     *)
(* Dereferencing a null refcount pointer raises before putValue.           *)
(***************************************************************************)
Mat_Summary ==
    /\ pc = "idle"
    /\ \E flags \in FlagsSet, rows \in RowsSet, cols \in ColsSet, ref \in RefcountSet :
        /\ fn' = "Mat"
        /\ hdr' = [hdr EXCEPT !.flags = flags,
                              !.depth = DecodeDepth(flags),
                              !.channels = DecodeChannels(flags),
                              !.cv_type_name = TypeName(flags),
                              !.data_byte_size = ByteSize(flags),
                              !.rows = rows,
                              !.cols = cols,
                              !.refnull = ref.null,
                              !.refcount = ref.count]
        /\ IF ref.null
           THEN /\ pc' = "error"
                /\ err' = "MemoryError"
                /\ UNCHANGED <<summary, nSummary>>
           ELSE /\ pc' = "mat_header"
                /\ summary' = ValueStr(cols, rows, flags, ref.count)
                /\ nSummary' = nSummary + 1
                /\ err' = err
    /\ UNCHANGED <<geo, exp, kids, loop, cells>>

(***************************************************************************)
(* Lines 62-79: read the row stride; when the node is expanded open the    *)
(* header children and read the data pointer.                              *)
(***************************************************************************)
MatHeaderKids(h) ==
    << Kid("mat", "flags", h.cv_type_name \o " (0x" \o Hex(h.flags) \o ")"),
       Kid("mat", "rows", SinkRendered),
       Kid("mat", "cols", SinkRendered),
       Kid("mat", "allocator", SinkRendered),
       Kid("mat", "dims", SinkRendered),
       Kid("mat", "refcount", SinkRendered),
       Kid("mat", "size", SinkRendered),
       Kid("mat", "step", SinkRendered) >>

Mat_Header ==
    /\ pc = "mat_header"
    /\ \E line_step \in StepSet, expanded \in BOOLEAN, data \in DataSet :
        /\ exp' = [exp EXCEPT !.top = Asked(expanded)]
        /\ IF expanded
           THEN /\ hdr' = [hdr EXCEPT !.line_step = line_step, !.image_data_start = data]
                /\ kids' = kids \o MatHeaderKids(hdr)
                /\ pc' = "mat_data"
           ELSE /\ hdr' = [hdr EXCEPT !.line_step = line_step]
                /\ kids' = kids
                /\ pc' = "done"
    /\ UNCHANGED <<fn, geo, summary, nSummary, loop, cells, err>>

(***************************************************************************)
(* Lines 80-92: the data child, its declared child count, and the entry    *)
(* into the element loop when the data child is expanded.                  *)
(***************************************************************************)
CappedSize(cols, rows) == Min2(cols * rows, ElementCap)

DeclaredCells(cols, rows) == IF cols > 0 /\ rows > 0 THEN CappedSize(cols, rows) ELSE 0

DataValue(h) ==
    Dec(h.cols) \o "x" \o Dec(h.rows) \o " (" \o Dec(h.cols * h.rows) \o ", 0x"
        \o Hex(h.image_data_start) \o ")"

Mat_Data ==
    /\ pc = "mat_data"
    /\ \E expanded \in BOOLEAN :
        /\ exp' = [exp EXCEPT !.data = Asked(expanded)]
        /\ hdr' = [hdr EXCEPT !.size = CappedSize(hdr.cols, hdr.rows)]
        /\ kids' = Append(kids, Kid("mat", "data", DataValue(hdr)))
        /\ cells' = [cells EXCEPT !.declared = DeclaredCells(hdr.cols, hdr.rows)]
        /\ loop' = NoLoop
        \* range(0, rows) and range(0, cols) are both non-empty
        /\ pc' = IF expanded /\ hdr.rows > 0 /\ hdr.cols > 0 THEN "mat_grid" ELSE "mat_tail"
    /\ UNCHANGED <<fn, geo, summary, nSummary, err>>

(***************************************************************************)
(* Lines 93-110: one iteration of the element loop at cell (i, j).         *)
(***************************************************************************)
CellName(i, j) == "[" \o Dec3(i) \o "," \o Dec3(j) \o "]"

\* byte offset from data of v = p + i*cols*channels + j*channels, p a pointer
\* to the element type
CellOffset(i, j, cols, channels, byteSize) == (i * cols * channels + j * channels) * byteSize

\* byte count of readRawMemory(v, channels*data_byte_size)
CellLength(channels, byteSize) == channels * byteSize

\* the test 's > size' of lines 97 and 109
OverCap(s, size) == s > size

Mat_GridEmit ==
    /\ pc = "mat_grid"
    /\ ~OverCap(loop.s, hdr.size)
    /\ LET i == loop.i
           j == loop.j
           s1 == loop.s + 1
       IN  /\ cells' = [cells EXCEPT
                  !.n = @ + 1,
                  !.reads = @ + 1,
                  !.last = [s |-> loop.s, name |-> CellName(i, j), i |-> i, j |-> j,
                            off |-> CellOffset(i, j, hdr.cols, hdr.channels, hdr.data_byte_size),
                            len |-> CellLength(hdr.channels, hdr.data_byte_size)]]
           /\ IF j + 1 < hdr.cols
              THEN /\ loop' = [i |-> i, j |-> j + 1, s |-> s1]
                   /\ pc' = "mat_grid"
              ELSE IF ~OverCap(s1, hdr.size) /\ i + 1 < hdr.rows
              THEN /\ loop' = [i |-> i + 1, j |-> 0, s |-> s1]
                   /\ pc' = "mat_grid"
              ELSE /\ loop' = [i |-> i, j |-> j, s |-> s1]
                   /\ pc' = "mat_tail"
    /\ UNCHANGED <<fn, hdr, geo, exp, summary, nSummary, kids, err>>

\* the break of line 98, followed by the break of line 110
Mat_GridBreak ==
    /\ pc = "mat_grid"
    /\ OverCap(loop.s, hdr.size)
    /\ pc' = "mat_tail"
    /\ UNCHANGED <<fn, hdr, geo, exp, summary, nSummary, kids, loop, cells, err>>

(***************************************************************************)
(* Lines 112-139: the boundary pointers and the stride.                    *)
(***************************************************************************)
Mat_Tail ==
    /\ pc = "mat_tail"
    /\ \E dataend \in DataEndSet, datastart \in DataStartSet, datalimit \in DataLimitSet :
        /\ hdr' = [hdr EXCEPT !.datastart = datastart]
        /\ kids' = kids \o << Kid("mat", "dataend", "0x" \o Hex(dataend)),
                              Kid("mat", "datastart", "0x" \o Hex(datastart)),
                              Kid("mat", "datalimit", "0x" \o Hex(datalimit)),
                              Kid("mat", "stride", Dec(hdr.line_step)) >>
    /\ pc' = "mat_roi"
    /\ UNCHANGED <<fn, geo, exp, summary, nSummary, loop, cells, err>>

(***************************************************************************)
(* Lines 141-164: the region of interest.                                  *)
(***************************************************************************)
InitialStride(h) == h.image_data_start - h.datastart

\* lines 146-147 divide by line_step and by data_byte_size*channels
RoiRaises(h) == InitialStride(h) > 0 /\ (h.line_step = 0 \/ h.data_byte_size * h.channels = 0)

FirstRow(h) == IF InitialStride(h) > 0 THEN TruncDiv(InitialStride(h), h.line_step) ELSE 0

FirstCol(h) ==
    IF InitialStride(h) > 0
    THEN TruncDiv(PyMod(InitialStride(h), h.line_step), h.data_byte_size * h.channels)
    ELSE 0

RoiValue(col, row, cols, rows) ==
    "[" \o Dec(col) \o "," \o Dec(row) \o "][" \o Dec(cols) \o "x" \o Dec(rows) \o "]"

Mat_Roi ==
    /\ pc = "mat_roi"
    /\ IF RoiRaises(hdr)
       THEN /\ pc' = "error"
            /\ err' = "ZeroDivisionError"
            /\ UNCHANGED <<hdr, exp, kids>>
       ELSE \E expanded \in BOOLEAN :
            /\ hdr' = [hdr EXCEPT !.first_row = FirstRow(hdr), !.first_col = FirstCol(hdr)]
            /\ exp' = [exp EXCEPT !.roi = Asked(expanded)]
            /\ kids' = kids
                  \o << Kid("mat", "roi", RoiValue(FirstCol(hdr), FirstRow(hdr), hdr.cols, hdr.rows)) >>
                  \o (IF expanded
                      THEN << Kid("roi", "x", Dec(FirstCol(hdr))),
                              Kid("roi", "y", Dec(FirstRow(hdr))),
                              Kid("roi", "width", Dec(hdr.cols)),
                              Kid("roi", "height", Dec(hdr.rows)) >>
                      ELSE <<>>)
            /\ pc' = "done"
            /\ err' = err
    /\ UNCHANGED <<fn, geo, summary, nSummary, loop, cells>>

(***************************************************************************)
(* Inputs of the geometry printers.  A float is counted in hundredths and  *)
(* is a multiple of 0.5; an int is itself.  Sizes are not negative.        *)
(***************************************************************************)
FloatCoordSet == {50 * k : k \in (-2 * MaxCoord)..(2 * MaxCoord)}

FloatSideSet == {50 * k : k \in 0..(2 * MaxSide)}

IntCoordSet == (-MaxCoord)..MaxCoord

IntSideSet == 0..MaxSide

\* the angles, in degrees, at which the model evaluates sin and cos
AngleSet == {0}

\* math.sin(angle * math.pi / 180.) * 0.5, in hundredths
HalfSin(angle) == CASE angle = 0 -> 0

\* math.cos(angle * math.pi / 180.) * 0.5, in hundredths
HalfCos(angle) == CASE angle = 0 -> 50

\* '[%.2f, %.2f]' % p
PairText(p) == "[" \o Fmt2(p[1]) \o ", " \o Fmt2(p[2]) \o "]"

(***************************************************************************)
(* qdump__cv__RotatedRect, lines 172-180: the summary.                     *)
(***************************************************************************)
RRValue(x, y, width, height, angle) ==
    "[" \o Fmt2(x) \o ", " \o Fmt2(y) \o "][" \o Fmt2(width) \o "x" \o Fmt2(height)
        \o ", " \o Fmt2(angle) \o "]"

RR_Summary ==
    /\ pc = "idle"
    /\ \E angle \in AngleSet, x \in FloatCoordSet, y \in FloatCoordSet,
          width \in FloatSideSet, height \in FloatSideSet :
        /\ geo' = [geo EXCEPT !.angle = ToFloat(angle), !.x = x, !.y = y,
                              !.width = width, !.height = height, !.float = TRUE]
        /\ summary' = RRValue(x, y, width, height, ToFloat(angle))
    /\ fn' = "RotatedRect"
    /\ nSummary' = nSummary + 1
    /\ pc' = "rr_children"
    /\ UNCHANGED <<hdr, exp, kids, loop, cells, err>>

(***************************************************************************)
(* Lines 182-189: angle, center, size and area.                            *)
(***************************************************************************)
RR_Children ==
    /\ pc = "rr_children"
    /\ \E expanded \in BOOLEAN :
        /\ exp' = [exp EXCEPT !.top = Asked(expanded)]
        /\ IF expanded
           THEN /\ kids' = kids \o << Kid("rrect", "angle", SinkRendered),
                                      Kid("rrect", "center", SinkRendered),
                                      Kid("rrect", "size", SinkRendered),
                                      Kid("rrect", "area", Fmt2(FMul(geo.width, geo.height))) >>
                /\ pc' = "rr_points"
           ELSE /\ kids' = kids
                /\ pc' = "done"
    /\ UNCHANGED <<fn, hdr, geo, summary, nSummary, loop, cells, err>>

(***************************************************************************)
(* Lines 192-211: the four corners.                                        *)
(***************************************************************************)
RRPointsSignSlip(x, y, width, height, angle) ==
    LET a == HalfSin(angle)
        b == HalfCos(angle)
        p0 == <<x - FMul(a, height) - FMul(b, width), y + FMul(b, height) - FMul(a, width)>>
        p1 == <<x + FMul(a, height) + FMul(b, width), y + FMul(b, height) - FMul(a, width)>>
        p2 == <<2 * x - p0[1], 2 * y - p0[2]>>
        p3 == <<2 * x - p1[1], 2 * y - p1[2]>>
    IN  <<p0, p1, p2, p3>>

RRPoints(x, y, width, height, angle) ==
    LET a == HalfSin(angle)
        b == HalfCos(angle)
        p0 == <<x - FMul(a, height) - FMul(b, width), y + FMul(b, height) - FMul(a, width)>>
        p1 == <<x + FMul(a, height) - FMul(b, width), y - FMul(b, height) - FMul(a, width)>>
        p2 == <<2 * x - p0[1], 2 * y - p0[2]>>
        p3 == <<2 * x - p1[1], 2 * y - p1[2]>>
    IN  <<p0, p1, p2, p3>>

GeoPoints(g) == RRPoints(g.x, g.y, g.width, g.height, g.angle \div 100)

PointKid(points, i) == Kid("points", "[" \o Dec(i) \o "]", PairText(points[i + 1]))

RR_Points ==
    /\ pc = "rr_points"
    /\ \E expanded \in BOOLEAN :
        /\ exp' = [exp EXCEPT !.points = Asked(expanded)]
        /\ kids' = kids \o << Kid("rrect", "points", "[x, y]") >>
                        \o (IF expanded
                            THEN [i \in 1..4 |-> PointKid(GeoPoints(geo), i - 1)]
                            ELSE <<>>)
    /\ pc' = "rr_bounding"
    /\ UNCHANGED <<fn, hdr, geo, summary, nSummary, loop, cells, err>>

(***************************************************************************)
(* Lines 213-239: the axis-aligned bounding rectangle of the corners.      *)
(***************************************************************************)
Min4(a, b, c, d) == Min2(Min2(a, b), Min2(c, d))

Max4(a, b, c, d) == Max2(Max2(a, b), Max2(c, d))

TopLeft(p) == <<Min4(p[1][1], p[2][1], p[3][1], p[4][1]), Min4(p[1][2], p[2][2], p[3][2], p[4][2])>>

BottomRight(p) == <<Max4(p[1][1], p[2][1], p[3][1], p[4][1]), Max4(p[1][2], p[2][2], p[3][2], p[4][2])>>

BoundingValue(tl, br) ==
    "[" \o Fmt2(tl[1]) \o ", " \o Fmt2(tl[2]) \o "][" \o Fmt2(br[1] - tl[1]) \o "x"
        \o Fmt2(br[2] - tl[2]) \o "]"

RR_Bounding ==
    /\ pc = "rr_bounding"
    /\ \E expanded \in BOOLEAN :
        LET tl == TopLeft(GeoPoints(geo))
            br == BottomRight(GeoPoints(geo))
            rWidth == br[1] - tl[1]
            rHeight == br[2] - tl[2]
        IN  /\ exp' = [exp EXCEPT !.boundingrect = Asked(expanded)]
            /\ kids' = kids \o << Kid("rrect", "boundingrect", BoundingValue(tl, br)) >>
                  \o (IF expanded
                      THEN << Kid("boundingrect", "top left", PairText(tl)),
                              Kid("boundingrect", "bottom right", PairText(br)),
                              Kid("boundingrect", "size", PairText(<<rWidth, rHeight>>)),
                              Kid("boundingrect", "area", Fmt2(FMul(rWidth, rHeight))) >>
                      ELSE <<>>)
    /\ pc' = "done"
    /\ UNCHANGED <<fn, hdr, geo, summary, nSummary, loop, cells, err>>

(***************************************************************************)
(* qdump__cv__Point_, lines 246-272.  float |-> FALSE is the case where    *)
(* float(value['x']) raised and the fields were read with int().           *)
(***************************************************************************)
PointValue(x, y, float) ==
    IF float THEN "[" \o Fmt2(x) \o ", " \o Fmt2(y) \o "]"
    ELSE "[" \o Dec(x) \o ", " \o Dec(y) \o "]"

\* the coordinates of the points: multiples of 0.5 as floats, whole as ints
PointFloatSet == {50 * k : k \in (-2 * MaxPoint)..(2 * MaxPoint)}

PointIntSet == (-MaxPoint)..MaxPoint

RECURSIVE GCD(_, _)
GCD(m, n) == IF n = 0 THEN m ELSE GCD(n, m % n)

\* '%.2f' % math.degrees(math.atan2(b, a)) in hundredths of a degree, for
\* coprime 0 < b < a <= 10: the values the math library gives
ArcTanTable(b, a) ==
    CASE
         b = 1 /\ a = 2 -> 2657
      [] b = 1 /\ a = 3 -> 1843
      [] b = 2 /\ a = 3 -> 3369
      [] b = 1 /\ a = 4 -> 1404
      [] b = 3 /\ a = 4 -> 3687
      [] b = 1 /\ a = 5 -> 1131
      [] b = 2 /\ a = 5 -> 2180
      [] b = 3 /\ a = 5 -> 3096
      [] b = 4 /\ a = 5 -> 3866
      [] b = 1 /\ a = 6 -> 946
      [] b = 5 /\ a = 6 -> 3981
      [] b = 1 /\ a = 7 -> 813
      [] b = 2 /\ a = 7 -> 1595
      [] b = 3 /\ a = 7 -> 2320
      [] b = 4 /\ a = 7 -> 2974
      [] b = 5 /\ a = 7 -> 3554
      [] b = 6 /\ a = 7 -> 4060
      [] b = 1 /\ a = 8 -> 713
      [] b = 3 /\ a = 8 -> 2056
      [] b = 5 /\ a = 8 -> 3201
      [] b = 7 /\ a = 8 -> 4119
      [] b = 1 /\ a = 9 -> 634
      [] b = 2 /\ a = 9 -> 1253
      [] b = 4 /\ a = 9 -> 2396
      [] b = 5 /\ a = 9 -> 2905
      [] b = 7 /\ a = 9 -> 3787
      [] b = 8 /\ a = 9 -> 4163
      [] b = 1 /\ a = 10 -> 571
      [] b = 3 /\ a = 10 -> 1670
      [] b = 7 /\ a = 10 -> 3499
      [] b = 9 /\ a = 10 -> 4199

\* the same for 0 <= b <= a, a > 0 (atan2 depends on the direction only)
ArcTanDeg(b, a) ==
    IF b = 0 THEN 0
    ELSE IF b = a THEN 4500
    ELSE ArcTanTable(b \div GCD(a, b), a \div GCD(a, b))

\* math.degrees(math.atan2(y, x)) rounded to hundredths of a degree, by the
\* octant of (x, y); atan2(0.0, 0.0) is 0.0
Atan2Deg(y, x) ==
    IF x = 0 /\ y = 0 THEN 0
    ELSE LET ax == Abs(x)
             ay == Abs(y)
             q1 == IF ay <= ax THEN ArcTanDeg(ay, ax) ELSE 9000 - ArcTanDeg(ax, ay)
             q == IF x < 0 THEN 18000 - q1 ELSE q1
         IN  IF y < 0 THEN -q ELSE q

\* '%.2f' % (math.degrees(math.atan2(y, x))), lines 268-270
AngleText(x, y) == Fmt2(Atan2Deg(y, x))

\* '%.2f' % math.sqrt(x*x+y*y)
ModuleText(x, y, float) ==
    IF float THEN Fmt2(RoundSqrt(x * x + y * y))
    ELSE Fmt2(RoundSqrt(ToFloat(x) * ToFloat(x) + ToFloat(y) * ToFloat(y)))

Point_Summary ==
    /\ pc = "idle"
    /\ \E float \in BOOLEAN :
        \E x \in (IF float THEN PointFloatSet ELSE PointIntSet),
           y \in (IF float THEN PointFloatSet ELSE PointIntSet) :
            /\ geo' = [geo EXCEPT !.x = x, !.y = y, !.float = float]
            /\ summary' = PointValue(x, y, float)
    /\ fn' = "Point"
    /\ nSummary' = nSummary + 1
    /\ pc' = "pt_children"
    /\ UNCHANGED <<hdr, exp, kids, loop, cells, err>>

Point_Children ==
    /\ pc = "pt_children"
    /\ \E expanded \in BOOLEAN :
        /\ exp' = [exp EXCEPT !.top = Asked(expanded)]
        /\ kids' = IF expanded
                   THEN kids \o << Kid("point", "x", SinkRendered),
                                   Kid("point", "y", SinkRendered),
                                   Kid("point", "module", ModuleText(geo.x, geo.y, geo.float)),
                                   Kid("point", "angle", AngleText(geo.x, geo.y)) >>
                   ELSE kids
    /\ pc' = "done"
    /\ UNCHANGED <<fn, hdr, geo, summary, nSummary, loop, cells, err>>

(***************************************************************************)
(* qdump__cv__Rect_, lines 279-306.                                        *)
(***************************************************************************)
RectValue(x, y, width, height, float) ==
    IF float
    THEN "[" \o Fmt2(x) \o ", " \o Fmt2(y) \o "][" \o Fmt2(width) \o "x" \o Fmt2(height) \o "]"
    ELSE "[" \o Dec(x) \o ", " \o Dec(y) \o "][" \o Dec(width) \o "x" \o Dec(height) \o "]"

\* '%.2f' % (width*height)
AreaText(width, height, float) ==
    IF float THEN Fmt2(FMul(width, height)) ELSE Fmt2(ToFloat(width * height))

Rect_Summary ==
    /\ pc = "idle"
    /\ \E float \in BOOLEAN :
        \E x \in (IF float THEN FloatCoordSet ELSE IntCoordSet),
           y \in (IF float THEN FloatCoordSet ELSE IntCoordSet),
           width \in (IF float THEN FloatSideSet ELSE IntSideSet),
           height \in (IF float THEN FloatSideSet ELSE IntSideSet) :
            /\ geo' = [geo EXCEPT !.x = x, !.y = y, !.width = width, !.height = height,
                                  !.float = float]
            /\ summary' = RectValue(x, y, width, height, float)
    /\ fn' = "Rect"
    /\ nSummary' = nSummary + 1
    /\ pc' = "rect_children"
    /\ UNCHANGED <<hdr, exp, kids, loop, cells, err>>

\* Line 303 hands putSubItem a str where the sink expects a debugger value:
\* the 'area' child is opened, and the sink either renders it or raises.
Rect_Children ==
    /\ pc = "rect_children"
    /\ \E expanded \in BOOLEAN, sinkRaises \in BOOLEAN :
        /\ exp' = [exp EXCEPT !.top = Asked(expanded)]
        /\ IF ~expanded
           THEN /\ kids' = kids
                /\ pc' = "done"
                /\ err' = err
           ELSE /\ kids' = kids \o << Kid("rect", "x", SinkRendered),
                                      Kid("rect", "y", SinkRendered),
                                      Kid("rect", "width", SinkRendered),
                                      Kid("rect", "height", SinkRendered),
                                      Kid("rect", "area", SinkRendered) >>
                                \o (IF sinkRaises
                                    THEN <<>>
                                    ELSE << Kid("rect", "area",
                                                AreaText(geo.width, geo.height, geo.float)) >>)
                /\ pc' = IF sinkRaises THEN "error" ELSE "done"
                /\ err' = IF sinkRaises THEN "SinkError" ELSE err
    /\ UNCHANGED <<fn, hdr, geo, summary, nSummary, loop, cells>>

(***************************************************************************)
(* qdump__cv__Size_, lines 313-330.                                        *)
(***************************************************************************)
SizeValue(width, height, float) ==
    IF float THEN Fmt2(width) \o "x" \o Fmt2(height) ELSE Dec(width) \o "x" \o Dec(height)

Size_Summary ==
    /\ pc = "idle"
    /\ \E float \in BOOLEAN :
        \E width \in (IF float THEN FloatSideSet ELSE IntSideSet),
           height \in (IF float THEN FloatSideSet ELSE IntSideSet) :
            /\ geo' = [geo EXCEPT !.width = width, !.height = height, !.float = float]
            /\ summary' = SizeValue(width, height, float)
    /\ fn' = "Size"
    /\ nSummary' = nSummary + 1
    /\ pc' = "size_children"
    /\ UNCHANGED <<hdr, exp, kids, loop, cells, err>>

Size_Children ==
    /\ pc = "size_children"
    /\ \E expanded \in BOOLEAN :
        /\ exp' = [exp EXCEPT !.top = Asked(expanded)]
        /\ kids' = IF expanded
                   THEN kids \o << Kid("size", "width", SinkRendered),
                                   Kid("size", "height", SinkRendered) >>
                   ELSE kids
    /\ pc' = "done"
    /\ UNCHANGED <<fn, hdr, geo, summary, nSummary, loop, cells, err>>

Next ==
    \/ Mat_Summary
    \/ Mat_Header
    \/ Mat_Data
    \/ Mat_GridEmit
    \/ Mat_GridBreak
    \/ Mat_Tail
    \/ Mat_Roi
    \/ RR_Summary
    \/ RR_Children
    \/ RR_Points
    \/ RR_Bounding
    \/ Point_Summary
    \/ Point_Children
    \/ Rect_Summary
    \/ Rect_Children
    \/ Size_Summary
    \/ Size_Children

Spec == Init /\ [][Next]_vars

(***************************************************************************)
(* Vocabulary of the properties.                                           *)
(***************************************************************************)
Ended == pc \in {"done", "error"}

\* the children opened under a node, in the order they were opened
KidsOf(node) == SelectSeq(kids, LAMBDA e : e.node = node)

NamesOf(node) == [k \in 1..Len(KidsOf(node)) |-> KidsOf(node)[k].name]

HasKid(node, name) == \E k \in 1..Len(kids) : kids[k].node = node /\ kids[k].name = name

KidValue(node, name) == SelectSeq(kids, LAMBDA e : e.node = node /\ e.name = name)[1].value

\* the channel count the documentation gives for a flags word
DocChannels(flags) == 1 + BitAndLow(ShiftRight(flags, ChannelShift), ChannelMask)

DocSummaryBase(h) == Dec(h.cols) \o "x" \o Dec(h.rows) \o " " \o h.cv_type_name

\* the element loop of an expanded data child is over
GridOver ==
    /\ fn = "Mat"
    /\ exp.top = "yes"
    /\ exp.data = "yes"
    /\ pc \in {"mat_tail", "mat_roi", "done", "error"}

(***************************************************************************)
(* C1.  Flag decoding: the decoded depth is flags & 7 and the decoded      *)
(* channel count is 1 + ((flags >> 3) & 63), so that decoding the flags    *)
(* depth | ((channels-1) << 3) gives back (depth, channels) for depth in   *)
(* [0,7] and channels in [1,64].                                           *)
(***************************************************************************)
C1_FlagsDecodeAsDocumented ==
    fn = "Mat" =>
        /\ hdr.depth = BitAndLow(hdr.flags, DepthMask)
        /\ hdr.channels = DocChannels(hdr.flags)
        /\ \A d \in 0..MaxDepth, c \in 1..(ChannelMask + 1) :
              hdr.flags = Encode(d, c) => hdr.depth = d /\ hdr.channels = c

(***************************************************************************)
(* C2.  Summary by buffer state: "uninstantiated" when refCount <= 0,      *)
(* "{cols}x{rows} {typeName} unique" when refCount = 1,                    *)
(* "{cols}x{rows} {typeName} shared" when refCount > 1.                    *)
(***************************************************************************)
C2_SummaryByBufferState ==
    (fn = "Mat" /\ ~hdr.refnull /\ nSummary > 0) =>
        summary = (IF hdr.refcount <= 0 THEN "uninstantiated"
                   ELSE IF hdr.refcount = 1 THEN DocSummaryBase(hdr) \o " unique"
                   ELSE DocSummaryBase(hdr) \o " shared")

(***************************************************************************)
(* C3.  Element-grid child count: with the matrix node and its data node   *)
(* expanded, the number of element children emitted, and the child count   *)
(* declared for the data node, is min(rows*cols, 1000) when rows > 0 and   *)
(* cols > 0 and 0 otherwise; never more than 1000 are emitted.             *)
(***************************************************************************)
DocCellCount(h) == IF h.rows > 0 /\ h.cols > 0 THEN Min2(h.rows * h.cols, ElementCap) ELSE 0

C3_GridChildCount ==
    /\ cells.n <= ElementCap
    /\ GridOver => cells.n = DocCellCount(hdr) /\ cells.declared = DocCellCount(hdr)

(***************************************************************************)
(* C4.  Region of interest: with byteOffset = data - datastart, the ROI is *)
(* x=0, y=0 when byteOffset <= 0, and otherwise y = byteOffset div         *)
(* lineStrideBytes, x = (byteOffset mod lineStrideBytes) div               *)
(* (elementByteSize * channels); width = cols, height = rows; the compact  *)
(* string and the four named children show the same values.  The division *)
(* and the remainder are read as the code's own (truncating division,      *)
(* remainder with the sign of the divisor).                                *)
(***************************************************************************)
DocRoiY(h) == IF InitialStride(h) <= 0 THEN 0 ELSE TruncDiv(InitialStride(h), h.line_step)

DocRoiX(h) ==
    IF InitialStride(h) <= 0 THEN 0
    ELSE TruncDiv(PyMod(InitialStride(h), h.line_step), h.data_byte_size * DocChannels(h.flags))

C4_RoiAsDocumented ==
    (fn = "Mat" /\ exp.top = "yes" /\ Ended) =>
        /\ HasKid("mat", "roi")
        /\ InitialStride(hdr) > 0 => hdr.line_step # 0
        /\ KidValue("mat", "roi") = RoiValue(DocRoiX(hdr), DocRoiY(hdr), hdr.cols, hdr.rows)
        /\ exp.roi = "yes" =>
              /\ NamesOf("roi") = <<"x", "y", "width", "height">>
              /\ KidValue("roi", "x") = Dec(DocRoiX(hdr))
              /\ KidValue("roi", "y") = Dec(DocRoiY(hdr))
              /\ KidValue("roi", "width") = Dec(hdr.cols)
              /\ KidValue("roi", "height") = Dec(hdr.rows)

(***************************************************************************)
(* C5.  Eager summary, lazy children: in every printer the summary is set  *)
(* exactly once per call and before any child is opened; while a node is   *)
(* not reported expanded no child is opened for it; element memory is read *)
(* only when both the matrix node and its data node are expanded.          *)
(***************************************************************************)
C5_EagerSummaryLazyChildren ==
    /\ nSummary <= 1
    /\ Ended => nSummary = 1
    /\ (kids # <<>> \/ cells.n > 0) => nSummary = 1
    /\ exp.top # "yes" => kids = <<>> /\ cells.n = 0
    /\ exp.roi # "yes" => KidsOf("roi") = <<>>
    /\ exp.points # "yes" => KidsOf("points") = <<>>
    /\ exp.boundingrect # "yes" => KidsOf("boundingrect") = <<>>
    /\ (cells.reads > 0 \/ cells.n > 0) => exp.top = "yes" /\ exp.data = "yes"

(***************************************************************************)
(* C6.  Rectangle children: an expanded Rect emits exactly the five        *)
(* children x, y, width, height, area, in that order, each name once, and  *)
(* area is width*height with 2 decimals in both domains.                   *)
(***************************************************************************)
C6_RectFiveChildren ==
    (fn = "Rect" /\ exp.top = "yes" /\ Ended) =>
        /\ NamesOf("rect") = <<"x", "y", "width", "height", "area">>
        /\ KidValue("rect", "area") = AreaText(geo.width, geo.height, geo.float)

(***************************************************************************)
(* C7.  RotatedRect at angle 0, as stated: the points [0],[1],[2],[3] are  *)
(* (x-w/2, y+h/2), (x+w/2, y+h/2), (x+w/2, y-h/2), (x-w/2, y-h/2), and the *)
(* bounding rectangle has top-left (x-w/2, y-h/2), bottom-right            *)
(* (x+w/2, y+h/2) and area w*h.                                            *)
(***************************************************************************)
Half(v) == v \div 2

BoundingAsDocumented ==
    exp.boundingrect = "yes" =>
        /\ KidValue("boundingrect", "top left")
              = PairText(<<geo.x - Half(geo.width), geo.y - Half(geo.height)>>)
        /\ KidValue("boundingrect", "bottom right")
              = PairText(<<geo.x + Half(geo.width), geo.y + Half(geo.height)>>)
        /\ KidValue("boundingrect", "area") = Fmt2(FMul(geo.width, geo.height))

C7_CornersAsStated ==
    (fn = "RotatedRect" /\ geo.angle = 0 /\ pc = "done") =>
        /\ exp.points = "yes" =>
              /\ NamesOf("points") = <<"[0]", "[1]", "[2]", "[3]">>
              /\ KidValue("points", "[0]")
                    = PairText(<<geo.x - Half(geo.width), geo.y + Half(geo.height)>>)
              /\ KidValue("points", "[1]")
                    = PairText(<<geo.x + Half(geo.width), geo.y + Half(geo.height)>>)
              /\ KidValue("points", "[2]")
                    = PairText(<<geo.x + Half(geo.width), geo.y - Half(geo.height)>>)
              /\ KidValue("points", "[3]")
                    = PairText(<<geo.x - Half(geo.width), geo.y - Half(geo.height)>>)
        /\ BoundingAsDocumented

(***************************************************************************)
(* C7, amended.  RotatedRect at angle 0, size not negative: the points     *)
(* [0],[1],[2],[3] are (x-w/2, y+h/2), (x-w/2, y-h/2), (x+w/2, y-h/2),     *)
(* (x+w/2, y+h/2), and the bounding rectangle has top-left (x-w/2, y-h/2), *)
(* bottom-right (x+w/2, y+h/2) and area w*h.                               *)
(***************************************************************************)
C7_CornersAtAngleZero ==
    (fn = "RotatedRect" /\ geo.angle = 0 /\ pc = "done") =>
        /\ exp.points = "yes" =>
              /\ NamesOf("points") = <<"[0]", "[1]", "[2]", "[3]">>
              /\ KidValue("points", "[0]")
                    = PairText(<<geo.x - Half(geo.width), geo.y + Half(geo.height)>>)
              /\ KidValue("points", "[1]")
                    = PairText(<<geo.x - Half(geo.width), geo.y - Half(geo.height)>>)
              /\ KidValue("points", "[2]")
                    = PairText(<<geo.x + Half(geo.width), geo.y - Half(geo.height)>>)
              /\ KidValue("points", "[3]")
                    = PairText(<<geo.x + Half(geo.width), geo.y + Half(geo.height)>>)
        /\ BoundingAsDocumented

\* center (0,0), size (4,2), angle 0, everything expanded
C7_Witness ==
    /\ fn = "RotatedRect"
    /\ pc = "done"
    /\ geo.x = 0 /\ geo.y = 0 /\ geo.width = 400 /\ geo.height = 200 /\ geo.angle = 0
    /\ exp.points = "yes"
    /\ exp.boundingrect = "yes"
    /\ KidValue("points", "[0]") = "[-2.00, 1.00]"
    /\ KidValue("points", "[1]") = "[-2.00, -1.00]"
    /\ KidValue("points", "[2]") = "[2.00, -1.00]"
    /\ KidValue("points", "[3]") = "[2.00, 1.00]"
    /\ KidValue("boundingrect", "top left") = "[-2.00, -1.00]"
    /\ KidValue("boundingrect", "bottom right") = "[2.00, 1.00]"
    /\ KidValue("boundingrect", "area") = "8.00"

(***************************************************************************)
(* C8.  Absent reference count: the printer still sets the summary,        *)
(* "{cols}x{rows} {typeName}" with no state suffix, and does not end in an *)
(* error.                                                                  *)
(***************************************************************************)
C8_AbsentRefcountSummary ==
    (fn = "Mat" /\ hdr.refnull) =>
        /\ pc # "error"
        /\ nSummary = 1
        /\ summary = DocSummaryBase(hdr)

(***************************************************************************)
(* C9.  Grid order and addressing: the k-th element child emitted          *)
(* (k = 0, 1, ...) has index k, is the cell of row k div cols and column   *)
(* k mod cols, is named after that row and column, and is read as          *)
(* channels*elementByteSize bytes at byte offset                           *)
(* (i*cols + j)*channels*elementByteSize from data, whatever the stride.   *)
(* The name shows each index right-aligned in a field of width 3.          *)
(***************************************************************************)
C9_GridOrderAndAddressing ==
    cells.n > 0 =>
        LET c == cells.last
            k == cells.n - 1
        IN  /\ c.s = k
            /\ c.i = k \div hdr.cols
            /\ c.j = k % hdr.cols
            /\ c.name = "[" \o Dec3(c.i) \o "," \o Dec3(c.j) \o "]"
            /\ c.len = DocChannels(hdr.flags) * hdr.data_byte_size
            /\ c.off = (c.i * hdr.cols + c.j) * DocChannels(hdr.flags) * hdr.data_byte_size

(***************************************************************************)
(* C10.  Malformed header is not fatal: with rows or cols negative or      *)
(* zero, or the line stride zero or negative, and any data offset, an      *)
(* expanded call runs to completion without an error, with the summary     *)
(* set, and emits no element child when rows <= 0 or cols <= 0.            *)
(***************************************************************************)
Malformed(h) == h.rows <= 0 \/ h.cols <= 0 \/ h.line_step <= 0

C10_MalformedHeaderNotFatal ==
    (fn = "Mat" /\ ~hdr.refnull /\ exp.top = "yes" /\ Malformed(hdr)) =>
        /\ pc # "error"
        /\ nSummary = 1
        /\ (hdr.rows <= 0 \/ hdr.cols <= 0) => cells.n = 0

====
